---- MODULE Spec2Model ----
(***************************************************************************)
(* Model of goxb/pkg grpc: NewGRPCServer (grpc/server.go), NewGRPCConn     *)
(* (client factory) and the zap logging server interceptors.               *)
(*                                                                         *)
(* The file system, crypto/tls, google.golang.org/grpc and                 *)
(* go-grpc-middleware are collaborators; each is modelled by the documented*)
(* behaviour of the call the source makes, at the call site.               *)
(***************************************************************************)
EXTENDS Naturals, Integers, Sequences, FiniteSets, TLC

(* ------------------------------ bounds --------------------------------- *)
\* longest caller-supplied interceptor list
MaxInterceptors == 2
\* number of faulting calls one server is driven through
MaxFaults == 2
\* largest value given to ClientRetryMax
MaxRetry == 2
\* longest list of LoggerFeild extractors
MaxFields == 1

(* --------------------------- the file system --------------------------- *)
\* "" is the unset path; opening it fails like any nonexistent file.
CAPaths   == {"", "missing.pem", "junk.pem", "ca.pem"}
CertPaths == {"", "missing.pem", "tls.crt"}
KeyPaths  == {"", "tls.key", "other.key"}

\* ioutil.ReadFile(p) returns err == nil
ReadFile(p) == p \in {"junk.pem", "ca.pem", "tls.crt", "tls.key", "other.key"}

\* cPool.AppendCertsFromPEM(bytes of p): true iff at least one certificate parsed
AppendCertsFromPEM(p) == p \in {"ca.pem", "tls.crt"}

\* tls.LoadX509KeyPair(certFile, keyFile): reads the certificate file, then
\* the key file, then parses and matches them.
LoadX509KeyPair(certFile, keyFile) ==
  IF ~ReadFile(certFile) THEN [ok |-> FALSE, read |-> <<certFile>>]
  ELSE IF ~ReadFile(keyFile) THEN [ok |-> FALSE, read |-> <<certFile, keyFile>>]
  ELSE [ok |-> (certFile = "tls.crt" /\ keyFile = "tls.key"),
        read |-> <<certFile, keyFile>>]

\* the error kinds of the credential stage, by the operation that failed
ErrKind(err) ==
  CASE err.cause = "ReadFile"           -> "CAUnreadable"
    [] err.cause = "AppendCertsFromPEM" -> "CAInvalid"
    [] err.cause = "LoadX509KeyPair"    -> "KeyPairInvalid"
    [] OTHER                            -> "none"

NoErr == [msg |-> "", cause |-> "nil"]

(* ------------------------------ helpers -------------------------------- *)
RECURSIVE SeqsUpTo(_, _)
SeqsUpTo(S, n) ==
  IF n = 0 THEN {<<>>}
  ELSE LET shorter == SeqsUpTo(S, n - 1)
       IN shorter \cup {Append(s, x) : s \in {t \in shorter : Len(t) = n - 1}, x \in S}

(* ------------------------------- server -------------------------------- *)
ServerInterceptorNames == {"A", "B"}

\* type ServerCredentialsConfig
ServerCredentialsConfig == [CAPath : CAPaths, CertPath : CertPaths, KeyPath : KeyPaths]

\* type serverOptions (the logger is the sink sLog)
serverOptions ==
  [creds : ServerCredentialsConfig,
   unaryInterceptors  : SeqsUpTo(ServerInterceptorNames, MaxInterceptors),
   streamInterceptors : SeqsUpTo(ServerInterceptorNames, MaxInterceptors)]

NoServer == [built |-> FALSE, tls |-> FALSE, ClientAuth |-> "NoClientCert",
             ClientCAs |-> "", unary |-> <<>>, stream |-> <<>>]

\* faulty variant: the recovery interceptor is left out of the unary list
unaryInterceptorsNoRecovery(o) == o.unaryInterceptors

\* the built-in interceptor first, server.go 123-126
unaryInterceptorsOf(o) == <<"recovery">> \o o.unaryInterceptors

\* faulty variant: the recovery interceptor is appended after the caller's
streamInterceptorsRecoveryLast(o) == o.streamInterceptors \o <<"recovery">>

\* the built-in interceptor first, server.go 127-130
streamInterceptorsOf(o) == <<"recovery">> \o o.streamInterceptors

\* grpc.NewServer(opts...) with chained interceptors, server.go 116-138
grpcNewServer(o, tlsOn, clientAuth, clientCAs) ==
  [built |-> TRUE, tls |-> tlsOn, ClientAuth |-> clientAuth, ClientCAs |-> clientCAs,
   unary |-> unaryInterceptorsOf(o), stream |-> streamInterceptorsOf(o)]

\* faulty variant: the error of tls.LoadX509KeyPair is not checked
mutualKeyPairUnchecked(o, read) ==
  [srv |-> grpcNewServer(o, TRUE, "RequireAndVerifyClientCert", o.creds.CAPath),
   err |-> NoErr,
   read |-> read \o LoadX509KeyPair(o.creds.CertPath, o.creds.KeyPath).read]

\* faulty variant: client certificates are verified only when given
mutualKeyPairOptionalAuth(o, read) ==
  LET kp == LoadX509KeyPair(o.creds.CertPath, o.creds.KeyPath) IN
  IF ~kp.ok
  THEN [srv |-> NoServer,
        err |-> [msg |-> "bad certificate of gRPC server", cause |-> "LoadX509KeyPair"],
        read |-> read \o kp.read]
  ELSE [srv |-> grpcNewServer(o, TRUE, "VerifyClientCertIfGiven", o.creds.CAPath),
        err |-> NoErr, read |-> read \o kp.read]

\* the key pair step of the mutual branch, server.go 101-112
mutualKeyPair(o, read) ==
  LET kp == LoadX509KeyPair(o.creds.CertPath, o.creds.KeyPath) IN
  IF ~kp.ok
  THEN [srv |-> NoServer,
        err |-> [msg |-> "bad certificate of gRPC server", cause |-> "LoadX509KeyPair"],
        read |-> read \o kp.read]
  ELSE [srv |-> grpcNewServer(o, TRUE, "RequireAndVerifyClientCert", o.creds.CAPath),
        err |-> NoErr, read |-> read \o kp.read]

\* faulty variant: an unreadable CA file falls back to a server without TLS
caReadErrorFallback(o) ==
  [srv |-> grpcNewServer(o, FALSE, "NoClientCert", ""), err |-> NoErr]

\* server.go 92-95: the CA file cannot be read
caReadError(o) ==
  [srv |-> NoServer, err |-> [msg |-> "failed to read ac cert", cause |-> "ReadFile"]]

\* NewGRPCServer: the value returned, with the files opened and the records
\* logged on the way
NewGRPCServerResult(o) ==
  LET creds == o.creds IN
  IF creds.CAPath = "" /\ creds.CertPath = "" /\ creds.KeyPath = ""
  THEN [srv |-> grpcNewServer(o, FALSE, "NoClientCert", ""), err |-> NoErr, read |-> <<>>,
        log |-> <<[level |-> "Info", msg |-> "No TLS keys, insecure mode", val |-> ""]>>]
  ELSE IF creds.CAPath = ""
  THEN LET kp == LoadX509KeyPair(creds.CertPath, creds.KeyPath)
           lg == <<[level |-> "Info", msg |-> "enable sample credentials in grpc server", val |-> ""]>>
       IN IF ~kp.ok
          THEN [srv |-> NoServer,
                err |-> [msg |-> "bad tls credentials", cause |-> "LoadX509KeyPair"],
                read |-> kp.read, log |-> lg]
          ELSE [srv |-> grpcNewServer(o, TRUE, "NoClientCert", ""), err |-> NoErr,
                read |-> kp.read, log |-> lg]
  ELSE LET lg == <<[level |-> "Info", msg |-> "enable mutual credentials in grpc server", val |-> ""]>>
       IN IF ~ReadFile(creds.CAPath)
          THEN [srv |-> caReadError(o).srv, err |-> caReadError(o).err,
                read |-> <<creds.CAPath>>, log |-> lg]
          ELSE IF ~AppendCertsFromPEM(creds.CAPath)
          THEN [srv |-> NoServer,
                err |-> [msg |-> "bad ac certificate", cause |-> "AppendCertsFromPEM"],
                read |-> <<creds.CAPath>>, log |-> lg]
          ELSE LET m == mutualKeyPair(o, <<creds.CAPath>>)
               IN [srv |-> m.srv, err |-> m.err, read |-> m.read, log |-> lg]

\* faulty variant: the recovered fault is reported as an Internal error
recoveryFnInternal(p) ==
  [err |-> "Internal",
   log |-> <<[level |-> "Error", msg |-> "recover unkown execption", val |-> p]>>]

\* recoveryFn, server.go 117-120: logs the fault value, returns nil
recoveryFn(p) ==
  [err |-> "nil",
   log |-> <<[level |-> "Error", msg |-> "recover unkown execption", val |-> p]>>]

\* Go errors a handler returns: "nil", "plain" (an error carrying no gRPC
\* status) or the name of the code of a status error
ServerHandlerErrs == {"nil", "NotFound", "Internal"}
FaultVals == {"nil deref", "index out of range"}

\* one inbound call: where a runtime fault is raised (if anywhere), the value
\* panicked with, and what the handler returns when it runs to completion
ServerCalls ==
  [faultAt : {"none"}, val : {""}, err : ServerHandlerErrs]
    \cup [faultAt : {"handler"} \cup ServerInterceptorNames, val : FaultVals, err : {"nil"}]

\* The interceptor built by grpc_middleware.ChainUnaryServer /
\* ChainStreamServer over `chain`, run from position i: chain[i] wraps
\* chain[i+1..], the handler is innermost.  "recovery" is
\* grpc_recovery.{Unary,Stream}ServerInterceptor(WithRecoveryHandler(recoveryFn)):
\* a deferred recover() that turns a panic of the wrapped call into
\* (nil, recoveryFn(p)).  A caller-supplied interceptor does its inbound
\* work, calls the next layer and returns its result.
RECURSIVE runServerChain(_, _, _)
runServerChain(chain, i, call) ==
  IF i > Len(chain)
  THEN IF call.faultAt = "handler"
       THEN [trace |-> <<"handler:in">>, panic |-> TRUE, val |-> call.val,
             resp |-> "nil", err |-> "nil", log |-> <<>>, faulted |-> TRUE]
       ELSE [trace |-> <<"handler:in", "handler:out">>, panic |-> FALSE, val |-> "",
             resp |-> IF call.err = "nil" THEN "resp" ELSE "nil", err |-> call.err,
             log |-> <<>>, faulted |-> FALSE]
  ELSE IF chain[i] = "recovery"
  THEN LET r == runServerChain(chain, i + 1, call) IN
       IF r.panic
       THEN [r EXCEPT !.trace = <<"recovery:in">> \o r.trace \o <<"recovery:recovered">>,
                      !.panic = FALSE, !.resp = "nil",
                      !.err = recoveryFn(r.val).err,
                      !.log = r.log \o recoveryFn(r.val).log]
       ELSE [r EXCEPT !.trace = <<"recovery:in">> \o r.trace \o <<"recovery:out">>]
  ELSE IF call.faultAt = chain[i]
  THEN [trace |-> <<chain[i] \o ":in">>, panic |-> TRUE, val |-> call.val,
        resp |-> "nil", err |-> "nil", log |-> <<>>, faulted |-> TRUE]
  ELSE LET r == runServerChain(chain, i + 1, call) IN
       IF r.panic
       THEN [r EXCEPT !.trace = <<chain[i] \o ":in">> \o r.trace]
       ELSE [r EXCEPT !.trace = <<chain[i] \o ":in">> \o r.trace \o <<chain[i] \o ":out">>]

(* ------------------------------- client -------------------------------- *)
ClientInterceptorNames == {"A", "B"}
ServerNames == {"", "svc.local"}

\* type ClientCredentialsConfig
ClientCredentialsConfig ==
  [CAPath : CAPaths, CertPath : CertPaths, KeyPath : KeyPaths,
   ServerName : ServerNames, Insecure : BOOLEAN]

\* type clientOptions (the logger is unused by NewGRPCConn; retryTimeout only
\* bounds the duration of an attempt and is left out)
clientOptions ==
  [retryMax : 0..MaxRetry,
   creds : ClientCredentialsConfig,
   unaryInterceptors  : SeqsUpTo(ClientInterceptorNames, MaxInterceptors),
   streamInterceptors : SeqsUpTo(ClientInterceptorNames, MaxInterceptors)]

NoInterceptor == [kind |-> "none", max |-> 0, list |-> <<>>]
NoTLS == [on |-> FALSE, ServerName |-> "", RootCAs |-> "", Certificates |-> <<>>]

\* grpc_retry.{Unary,Stream}ClientInterceptor(WithMax(max), ...)
retryInterceptor(max) == [kind |-> "retry", max |-> max, list |-> <<>>]

\* grpc_middleware.ChainUnaryClient / ChainStreamClient(list...)
chainInterceptor(list) == [kind |-> "chain", max |-> 0, list |-> list]

DialOption(name, f, tls) == [opt |-> name, f |-> f, tls |-> tls]

\* the four interceptor options, part_000 113-123, in the order appended
interceptorOptions(o) ==
  << DialOption("WithStreamInterceptor", retryInterceptor(o.retryMax), NoTLS),
     DialOption("WithUnaryInterceptor", retryInterceptor(o.retryMax), NoTLS),
     DialOption("WithUnaryInterceptor", chainInterceptor(o.unaryInterceptors), NoTLS),
     DialOption("WithStreamInterceptor", chainInterceptor(o.streamInterceptors), NoTLS) >>

\* grpc.Dial applies the options in order to one dialOptions value.
\* WithUnaryInterceptor / WithStreamInterceptor assign the single unaryInt /
\* streamInt field: a second use replaces the first.
RECURSIVE applyDialOptions(_, _, _)
applyDialOptions(options, i, d) ==
  IF i > Len(options) THEN d
  ELSE LET x == options[i] IN
       applyDialOptions(options, i + 1,
         CASE x.opt = "WithInsecure"             -> [d EXCEPT !.insecure = TRUE]
           [] x.opt = "WithTransportCredentials" -> [d EXCEPT !.tls = x.tls]
           [] x.opt = "WithUnaryInterceptor"     -> [d EXCEPT !.unaryInt = x.f]
           [] x.opt = "WithStreamInterceptor"    -> [d EXCEPT !.streamInt = x.f]
           [] OTHER                              -> d)

NoConn == [open |-> FALSE, insecure |-> FALSE, tls |-> NoTLS,
           unaryInt |-> NoInterceptor, streamInt |-> NoInterceptor]

\* grpc.Dial(address, options...), part_000 125; dialOK is the transport's answer
grpcDial(options, dialOK) ==
  IF dialOK
  THEN [conn |-> applyDialOptions(options, 1, [NoConn EXCEPT !.open = TRUE]), err |-> NoErr]
  ELSE [conn |-> NoConn, err |-> [msg |-> "dial", cause |-> "Dial"]]

\* faulty variant: the flag is honoured only when no CA path is set
useInsecureUnlessCA(o) == o.creds.Insecure /\ o.creds.CAPath = ""

\* part_000 82: the branch taken on the Insecure flag
useInsecure(o) == o.creds.Insecure

\* part_000 102-108: the optional client certificate
clientKeyPair(o, cfg, read, dialOK) ==
  IF o.creds.CertPath # "" /\ o.creds.KeyPath # ""
  THEN LET kp == LoadX509KeyPair(o.creds.CertPath, o.creds.KeyPath) IN
       IF ~kp.ok
       THEN [conn |-> NoConn,
             err |-> [msg |-> "failed to append ca crt", cause |-> "LoadX509KeyPair"],
             read |-> read \o kp.read, tlsBuilt |-> TRUE]
       ELSE LET c == [cfg EXCEPT !.Certificates = <<o.creds.CertPath>>] IN
            grpcDial(<<DialOption("WithTransportCredentials", NoInterceptor, c)>>
                       \o interceptorOptions(o), dialOK)
              @@ [read |-> read \o kp.read, tlsBuilt |-> TRUE]
  ELSE grpcDial(<<DialOption("WithTransportCredentials", NoInterceptor, cfg)>>
                  \o interceptorOptions(o), dialOK)
         @@ [read |-> read, tlsBuilt |-> TRUE]

\* NewGRPCConn: the value returned, the files opened, and whether a
\* tls.Config was constructed
NewGRPCConnResult(o, dialOK) ==
  IF useInsecure(o)
  THEN grpcDial(<<DialOption("WithInsecure", NoInterceptor, NoTLS)>>
                  \o interceptorOptions(o), dialOK)
         @@ [read |-> <<>>, tlsBuilt |-> FALSE]
  ELSE LET clientTLSConfig == [on |-> TRUE, ServerName |-> o.creds.ServerName,
                               RootCAs |-> "", Certificates |-> <<>>]
       IN IF o.creds.CAPath # ""
          THEN IF ~ReadFile(o.creds.CAPath)
               THEN [conn |-> NoConn, err |-> [msg |-> "", cause |-> "ReadFile"],
                     read |-> <<o.creds.CAPath>>, tlsBuilt |-> TRUE]
               ELSE IF ~AppendCertsFromPEM(o.creds.CAPath)
               THEN [conn |-> NoConn,
                     err |-> [msg |-> "failed to append ca crt", cause |-> "AppendCertsFromPEM"],
                     read |-> <<o.creds.CAPath>>, tlsBuilt |-> TRUE]
               ELSE clientKeyPair(o, [clientTLSConfig EXCEPT !.RootCAs = o.creds.CAPath],
                                  <<o.creds.CAPath>>, dialOK)
          ELSE clientKeyPair(o, clientTLSConfig, <<>>, dialOK)

\* what the transport does with every attempt of one outbound call
ClientCalls == {"ok", "transient", "permanent"}

transportErr(call) ==
  CASE call = "ok"        -> "nil"
    [] call = "transient" -> "Unavailable"
    [] OTHER              -> "InvalidArgument"

RECURSIVE repeat(_, _)
repeat(s, n) == IF n = 0 THEN <<>> ELSE s \o repeat(s, n - 1)

\* one pass through a list of caller-supplied interceptors down to the transport
onePass(list) == [i \in 1..Len(list) |-> list[i]] \o <<"transport">>

\* A call on the connection runs the one installed interceptor f with the
\* transport as its invoker.  grpc_retry: max == 0 invokes once; otherwise the
\* loop `for attempt := 0; attempt < max` stops at the first success or
\* non-retriable error.
runClientInterceptor(f, call) ==
  CASE f.kind = "chain" -> [trace |-> onePass(f.list), attempts |-> 1, err |-> transportErr(call)]
    [] f.kind = "retry" ->
         LET n == IF f.max = 0 \/ call # "transient" THEN 1 ELSE f.max IN
         [trace |-> repeat(<<"retry", "transport">>, n), attempts |-> n,
          err |-> transportErr(call)]
    [] OTHER -> [trace |-> <<"transport">>, attempts |-> 1, err |-> transportErr(call)]

(* ------------------------- logging interceptors ------------------------ *)
\* longest handler latency, in clock ticks
MaxLatency == 1

\* google.golang.org/grpc/codes
Codes == {"OK", "Canceled", "Unknown", "InvalidArgument", "DeadlineExceeded",
          "NotFound", "AlreadyExists", "PermissionDenied", "ResourceExhausted",
          "FailedPrecondition", "Aborted", "OutOfRange", "Unimplemented",
          "Internal", "Unavailable", "DataLoss", "Unauthenticated"}

\* Go errors: "nil", "plain" (no gRPC status) or the code of a status error
Errors == {"nil", "plain"} \cup (Codes \ {"OK"})

\* status.Code(err): OK for nil, Unknown for an error that is no status
statusCode(err) ==
  IF err = "nil" THEN "OK" ELSE IF err = "plain" THEN "Unknown" ELSE err

LoggerFeildNames == {"traceID", "user"}
Contexts == {"ctx1", "ctx2"}
Methods == {"/svc/Get", "/svc/Put"}

\* applyLoggerFeilds: every extractor applied to ctx, in order
applyLoggerFeilds(ctx, lfs) == [i \in 1..Len(lfs) |-> <<lfs[i], ctx>>]

\* faulty variant: Unavailable is not treated as an error
levelOfInternalOnly(code) == IF code = "Internal" THEN "Error" ELSE "Info"

\* part_001 42-46 / 70-74: the level the record is written at
levelOf(code) ==
  IF code = "Internal" \/ code = "Unavailable" THEN "Error" ELSE "Info"

\* one call through a logging interceptor: context, method, what the handler
\* does (panic, or return err after `latency` ticks)
LogCalls ==
  [ctx : Contexts, method : Methods, latency : 0..MaxLatency,
   err : Errors, panics : BOOLEAN]

\* the record written: level, the parts of msg, the fields of logger.With
logRecord(code, call, fields) ==
  [level |-> levelOf(code), latency |-> call.latency, method |-> call.method,
   code |-> code, detail |-> IF call.err # "nil" THEN call.err ELSE "-",
   fields |-> fields]

\* UnaryServerInterceptor(logger, opts...) applied to one call.  A panic of the
\* handler unwinds through it: nothing is logged.
UnaryServerInterceptor(opts, call) ==
  IF call.panics
  THEN [log |-> <<>>, panic |-> TRUE, resp |-> "nil", err |-> "nil"]
  ELSE LET code == statusCode(call.err)
           fields == applyLoggerFeilds(call.ctx, opts)
       IN [log |-> <<logRecord(code, call, fields)>>, panic |-> FALSE,
           resp |-> IF call.err = "nil" THEN "resp" ELSE "nil", err |-> call.err]

\* StreamServerInterceptor(logger, opts...) applied to one call; ctx is
\* stream.Context()
StreamServerInterceptor(opts, call) ==
  IF call.panics
  THEN [log |-> <<>>, panic |-> TRUE, resp |-> "nil", err |-> "nil"]
  ELSE LET code == statusCode(call.err)
           fields == applyLoggerFeilds(call.ctx, opts)
       IN [log |-> <<logRecord(code, call, fields)>>, panic |-> FALSE,
           resp |-> "nil", err |-> call.err]

(* ------------------------------- state --------------------------------- *)
VARIABLES
  sOpts,    \* serverOptions after applyServerOptions
  sState,   \* "off" | "new" | "done": NewGRPCServer not used / not yet / returned
  sRet,     \* what NewGRPCServer returned: [srv, err]
  sRead,    \* files NewGRPCServer opened, in order
  sLog,     \* records the server logger received in the last step
  sCall,    \* the last call served
  crashed,  \* the server process died of an unrecovered panic
  faults    \* number of calls so far in which a runtime fault was raised

svars == <<sOpts, sState, sRet, sRead, sLog, sCall, crashed, faults>>

NoServerOpts ==
  [creds |-> [CAPath |-> "", CertPath |-> "", KeyPath |-> ""],
   unaryInterceptors |-> <<>>, streamInterceptors |-> <<>>]

NoServerCall ==
  [kind |-> "none", in |-> [faultAt |-> "none", val |-> "", err |-> "nil"],
   trace |-> <<>>, resp |-> "nil", err |-> "nil", faulted |-> FALSE, after |-> 0]

\* applyServerOptions: the options a caller can pass
InitServer ==
  /\ sOpts \in serverOptions
  /\ sState = "new"
  /\ sRet = [srv |-> NoServer, err |-> NoErr]
  /\ sRead = <<>>
  /\ sLog = <<>>
  /\ sCall = NoServerCall
  /\ crashed = FALSE
  /\ faults = 0

ServerOff ==
  /\ sOpts = NoServerOpts
  /\ sState = "off"
  /\ sRet = [srv |-> NoServer, err |-> NoErr]
  /\ sRead = <<>>
  /\ sLog = <<>>
  /\ sCall = NoServerCall
  /\ crashed = FALSE
  /\ faults = 0

NewGRPCServer ==
  /\ sState = "new"
  /\ LET r == NewGRPCServerResult(sOpts) IN
     /\ sRet' = [srv |-> r.srv, err |-> r.err]
     /\ sRead' = r.read
     /\ sLog' = r.log
  /\ sState' = "done"
  /\ UNCHANGED <<sOpts, sCall, crashed, faults>>

\* the server serves one call through the installed interceptor
Serve(kind, chain, call) ==
  /\ sState = "done"
  /\ sRet.srv.built
  /\ ~crashed
  /\ LET r == runServerChain(chain, 1, call) IN
     /\ r.faulted => faults < MaxFaults
     /\ sCall' = [kind |-> kind, in |-> call, trace |-> r.trace, resp |-> r.resp,
                  err |-> r.err, faulted |-> r.faulted, after |-> faults]
     /\ sLog' = r.log
     /\ crashed' = r.panic
     /\ faults' = IF r.faulted THEN faults + 1 ELSE faults
  /\ UNCHANGED <<sOpts, sState, sRet, sRead>>

UnaryCall == \E call \in ServerCalls : Serve("unary", sRet.srv.unary, call)

StreamCall == \E call \in ServerCalls : Serve("stream", sRet.srv.stream, call)

(* ---------------------------- client state ----------------------------- *)
VARIABLES
  cOpts,    \* clientOptions after applyClientOptions
  cState,   \* "off" | "new" | "done"
  cRet,     \* what NewGRPCConn returned: [conn, err]
  cRead,    \* files NewGRPCConn opened, in order
  cTLS,     \* NewGRPCConn constructed a tls.Config
  cCall     \* the last call made on the connection

cvars == <<cOpts, cState, cRet, cRead, cTLS, cCall>>

NoClientOpts ==
  [retryMax |-> 0,
   creds |-> [CAPath |-> "", CertPath |-> "", KeyPath |-> "", ServerName |-> "",
              Insecure |-> FALSE],
   unaryInterceptors |-> <<>>, streamInterceptors |-> <<>>]

NoClientCall ==
  [kind |-> "none", in |-> "ok", trace |-> <<>>, attempts |-> 0, err |-> "nil"]

\* applyClientOptions: the options a caller can pass
InitClient ==
  /\ cOpts \in clientOptions
  /\ cState = "new"
  /\ cRet = [conn |-> NoConn, err |-> NoErr]
  /\ cRead = <<>>
  /\ cTLS = FALSE
  /\ cCall = NoClientCall

ClientOff ==
  /\ cOpts = NoClientOpts
  /\ cState = "off"
  /\ cRet = [conn |-> NoConn, err |-> NoErr]
  /\ cRead = <<>>
  /\ cTLS = FALSE
  /\ cCall = NoClientCall

NewGRPCConn ==
  /\ cState = "new"
  /\ \E dialOK \in BOOLEAN :
       LET r == NewGRPCConnResult(cOpts, dialOK) IN
       /\ cRet' = [conn |-> r.conn, err |-> r.err]
       /\ cRead' = r.read
       /\ cTLS' = r.tlsBuilt
  /\ cState' = "done"
  /\ UNCHANGED <<cOpts, cCall>>

\* one call on the connection through the installed interceptor
Invoke(kind, f, call) ==
  /\ cState = "done"
  /\ cRet.conn.open
  /\ LET r == runClientInterceptor(f, call) IN
     cCall' = [kind |-> kind, in |-> call, trace |-> r.trace,
               attempts |-> r.attempts, err |-> r.err]
  /\ UNCHANGED <<cOpts, cState, cRet, cRead, cTLS>>

UnaryInvoke == \E call \in ClientCalls : Invoke("unary", cRet.conn.unaryInt, call)

StreamInvoke == \E call \in ClientCalls : Invoke("stream", cRet.conn.streamInt, call)

(* ---------------------------- logging state ---------------------------- *)
VARIABLES
  lOpts,    \* the LoggerFeild list the interceptors were built with
  lState,   \* "off" | "on"
  lCall,    \* the last call through a logging interceptor
  lLog      \* records the logger received for that call

lvars == <<lOpts, lState, lCall, lLog>>

NoLogCall ==
  [kind |-> "none",
   in |-> [ctx |-> "ctx1", method |-> "/svc/Get", latency |-> 0, err |-> "nil",
           panics |-> FALSE],
   panic |-> FALSE, resp |-> "nil", err |-> "nil"]

InitLogging ==
  /\ lOpts \in SeqsUpTo(LoggerFeildNames, MaxFields)
  /\ lState = "on"
  /\ lCall = NoLogCall
  /\ lLog = <<>>

LoggingOff ==
  /\ lOpts = <<>>
  /\ lState = "off"
  /\ lCall = NoLogCall
  /\ lLog = <<>>

LogUnaryCall ==
  /\ lState = "on"
  /\ \E call \in LogCalls :
       LET r == UnaryServerInterceptor(lOpts, call) IN
       /\ lCall' = [kind |-> "unary", in |-> call, panic |-> r.panic,
                    resp |-> r.resp, err |-> r.err]
       /\ lLog' = r.log
  /\ UNCHANGED <<lOpts, lState>>

LogStreamCall ==
  /\ lState = "on"
  /\ \E call \in LogCalls :
       LET r == StreamServerInterceptor(lOpts, call) IN
       /\ lCall' = [kind |-> "stream", in |-> call, panic |-> r.panic,
                    resp |-> r.resp, err |-> r.err]
       /\ lLog' = r.log
  /\ UNCHANGED <<lOpts, lState>>

(* --------------------------- specifications ---------------------------- *)
vars == <<svars, cvars, lvars>>

\* a server and the calls it serves
NextServer ==
  \/ NewGRPCServer /\ UNCHANGED <<cvars, lvars>>
  \/ UnaryCall /\ UNCHANGED <<cvars, lvars>>
  \/ StreamCall /\ UNCHANGED <<cvars, lvars>>

InitServerOnly == InitServer /\ ClientOff /\ LoggingOff

SpecServer == InitServerOnly /\ [][NextServer]_vars

\* a client connection and the calls made on it
NextClient ==
  \/ NewGRPCConn /\ UNCHANGED <<svars, lvars>>
  \/ UnaryInvoke /\ UNCHANGED <<svars, lvars>>
  \/ StreamInvoke /\ UNCHANGED <<svars, lvars>>

InitClientOnly == ServerOff /\ InitClient /\ LoggingOff

SpecClient == InitClientOnly /\ [][NextClient]_vars

\* both factories of one process, over every credentials configuration
InitFactory ==
  /\ InitServer /\ sOpts.unaryInterceptors = <<>> /\ sOpts.streamInterceptors = <<>>
  /\ InitClient /\ cOpts.unaryInterceptors = <<>> /\ cOpts.streamInterceptors = <<>>
  /\ cOpts.retryMax = 0
  /\ LoggingOff

NextFactory ==
  \/ NewGRPCServer /\ UNCHANGED <<cvars, lvars>>
  \/ NewGRPCConn /\ UNCHANGED <<svars, lvars>>

SpecFactory == InitFactory /\ [][NextFactory]_vars

\* the logging interceptors on their own
NextLogging ==
  \/ LogUnaryCall /\ UNCHANGED <<svars, cvars>>
  \/ LogStreamCall /\ UNCHANGED <<svars, cvars>>

InitLoggingOnly == ServerOff /\ ClientOff /\ InitLogging

SpecLogging == InitLoggingOnly /\ [][NextLogging]_vars

(* ------------------------------ properties ----------------------------- *)
IsPrefix(s, t) == Len(s) <= Len(t) /\ SubSeq(t, 1, Len(s)) = s

InboundEvents == {n \o ":in" : n \in ServerInterceptorNames \cup {"recovery", "handler"}}

\* the inbound events of a trace, in the order they happened
inbound(trace) == SelectSeq(trace, LAMBDA e : e \in InboundEvents)

\* C1: on a connection built by NewGRPCConn the retry interceptor is the
\* outermost interceptor of the unary and of the streaming chain, and every
\* call passes through it first.
C1_RetryOutermost ==
  /\ (cState = "done" /\ cRet.conn.open) =>
        /\ cRet.conn.unaryInt.kind = "retry"
        /\ cRet.conn.streamInt.kind = "retry"
  /\ cCall.kind # "none" => Head(cCall.trace) = "retry"

\* C2: with ClientRetryMax(N), a call that fails transiently on every attempt
\* is attempted exactly N+1 times.
C2_AttemptsNPlusOne ==
  (cCall.kind # "none" /\ cCall.in = "transient") =>
     cCall.attempts = cOpts.retryMax + 1

\* C3: a runtime fault in one call never terminates the server, and every
\* later call that raises no fault runs its handler and returns the handler's
\* result.
C3_FaultContained ==
  /\ ~crashed
  /\ (sCall.kind # "none" /\ sCall.after > 0 /\ ~sCall.faulted) =>
        /\ sCall.err = sCall.in.err
        /\ sCall.resp = (IF sCall.in.err = "nil" THEN "resp" ELSE "nil")
        /\ \E i \in 1..Len(sCall.trace) : sCall.trace[i] = "handler:out"

C3_Witness ==
  /\ sCall.kind = "stream" /\ sCall.after > 0 /\ ~sCall.faulted
  /\ sCall.in.err = "nil" /\ sCall.resp = "resp"

\* C4: the effective server chain is recovery, then the caller's interceptors
\* in the order given: inbound logic runs in that order, and a fault raised in
\* any of them (or in the handler) is caught at the recovery layer.
C4_ChainOrder ==
  sCall.kind # "none" =>
    LET user == IF sCall.kind = "unary" THEN sOpts.unaryInterceptors
                ELSE sOpts.streamInterceptors
        full == <<"recovery:in">> \o [i \in 1..Len(user) |-> user[i] \o ":in"]
                   \o <<"handler:in">>
        ins  == inbound(sCall.trace)
    IN /\ IsPrefix(ins, full)
       /\ ~sCall.faulted => ins = full
       /\ sCall.faulted =>
            /\ ins[Len(ins)] = sCall.in.faultAt \o ":in"
            /\ sCall.trace[Len(sCall.trace)] = "recovery:recovered"
            /\ ~crashed

C4_Witness ==
  /\ sCall.kind = "unary"
  /\ sOpts.unaryInterceptors = <<"A", "B">>
  /\ sCall.in.faultAt = "B"
  /\ sCall.trace = <<"recovery:in", "A:in", "B:in", "recovery:recovered">>

\* C5: the record a logging interceptor writes has Error level exactly when
\* the call's status code is Internal or Unavailable, and Info level otherwise.
C5_Severity ==
  \A i \in 1..Len(lLog) :
    lLog[i].level =
      (IF lCall.in.err \in {"Internal", "Unavailable"} THEN "Error" ELSE "Info")

C5_Witness ==
  /\ lCall.kind = "stream" /\ lCall.in.err = "Unavailable"
  /\ Len(lLog) = 1 /\ lLog[1].level = "Error" /\ lLog[1].code = "Unavailable"

\* C6 as stated: CAPath set with CertPath or KeyPath empty always fails with
\* KeyPairInvalid.
C6_AlwaysKeyPairInvalid ==
  (sState = "done" /\ sOpts.creds.CAPath # ""
     /\ (sOpts.creds.CertPath = "" \/ sOpts.creds.KeyPath = "")) =>
    /\ ~sRet.srv.built
    /\ ErrKind(sRet.err) = "KeyPairInvalid"

\* C6 amended: CAPath set with CertPath or KeyPath empty always fails and
\* returns no server; the error is KeyPairInvalid when the CA file loads,
\* CAUnreadable when it cannot be read and CAInvalid when it holds no
\* certificate.
C6_FailsByCAThenKeyPair ==
  (sState = "done" /\ sOpts.creds.CAPath # ""
     /\ (sOpts.creds.CertPath = "" \/ sOpts.creds.KeyPath = "")) =>
    /\ ~sRet.srv.built
    /\ ErrKind(sRet.err) =
         (IF ~ReadFile(sOpts.creds.CAPath) THEN "CAUnreadable"
          ELSE IF ~AppendCertsFromPEM(sOpts.creds.CAPath) THEN "CAInvalid"
          ELSE "KeyPairInvalid")

C6_Witness ==
  /\ sState = "done" /\ sOpts.creds.CAPath = "ca.pem"
  /\ sOpts.creds.CertPath = "" /\ sOpts.creds.KeyPath = "tls.key"
  /\ ~sRet.srv.built /\ ErrKind(sRet.err) = "KeyPairInvalid"

\* C7: with Insecure set, NewGRPCConn constructs no TLS configuration and
\* opens no file, whatever the other credential fields hold.
C7_InsecureReadsNothing ==
  (cState = "done" /\ cOpts.creds.Insecure) =>
    /\ cRead = <<>>
    /\ ~cTLS
    /\ ~cRet.conn.tls.on
    /\ cRet.conn.open => cRet.conn.insecure

C7_Witness ==
  /\ cState = "done" /\ cOpts.creds.Insecure /\ cRet.conn.open
  /\ cOpts.creds.CAPath = "missing.pem" /\ cOpts.creds.CertPath = "tls.crt"
  /\ cOpts.creds.KeyPath = "other.key" /\ cOpts.creds.ServerName = "svc.local"

\* C8: an unreadable CA file makes NewGRPCConn (Insecure false) and
\* NewGRPCServer return CAUnreadable and no handle; no credential error comes
\* with a handle, and a handle built from TLS settings runs TLS.
C8_CAUnreadable ==
  /\ (cState = "done" /\ ~cOpts.creds.Insecure
        /\ cOpts.creds.CAPath # "" /\ ~ReadFile(cOpts.creds.CAPath)) =>
       (~cRet.conn.open /\ ErrKind(cRet.err) = "CAUnreadable")
  /\ (sState = "done" /\ sOpts.creds.CAPath # "" /\ ~ReadFile(sOpts.creds.CAPath)) =>
       (~sRet.srv.built /\ ErrKind(sRet.err) = "CAUnreadable")
  /\ ErrKind(cRet.err) # "none" => ~cRet.conn.open
  /\ ErrKind(sRet.err) # "none" => ~sRet.srv.built
  /\ (cRet.conn.open /\ ~cOpts.creds.Insecure) => (cRet.conn.tls.on /\ ~cRet.conn.insecure)
  /\ (sRet.srv.built /\ sOpts.creds # NoServerOpts.creds) => sRet.srv.tls

C8_Witness ==
  /\ cState = "done" /\ ~cOpts.creds.Insecure /\ cOpts.creds.CAPath = "missing.pem"
  /\ ErrKind(cRet.err) = "CAUnreadable"
  /\ sState = "done" /\ sOpts.creds.CAPath = "missing.pem"
  /\ ErrKind(sRet.err) = "CAUnreadable"

\* C9: the server's mode follows from which paths are set: none set gives a
\* server without TLS and no error; CAPath empty with a loadable pair gives
\* TLS that asks for no client certificate; CAPath set gives TLS that
\* requires and verifies client certificates against that CA.
C9_ModeSelection ==
  sState = "done" =>
    LET c == sOpts.creds IN
    /\ (c.CAPath = "" /\ c.CertPath = "" /\ c.KeyPath = "") =>
         (sRet.srv.built /\ ~sRet.srv.tls /\ sRet.err = NoErr)
    /\ (c.CAPath = "" /\ c.CertPath = "tls.crt" /\ c.KeyPath = "tls.key") =>
         sRet.srv.built
    /\ (sRet.srv.built /\ c.CAPath = "" /\ (c.CertPath # "" \/ c.KeyPath # "")) =>
         (sRet.srv.tls /\ sRet.srv.ClientAuth = "NoClientCert" /\ sRet.srv.ClientCAs = "")
    /\ (sRet.srv.built /\ c.CAPath # "") =>
         /\ sRet.srv.tls
         /\ sRet.srv.ClientAuth = "RequireAndVerifyClientCert"
         /\ sRet.srv.ClientCAs = c.CAPath

C9_Witness ==
  /\ sState = "done" /\ sRet.srv.built /\ sOpts.creds.CAPath = "ca.pem"
  /\ sRet.srv.ClientAuth = "RequireAndVerifyClientCert"

\* C10: when a fault is raised in a call, the recovery handler logs one
\* Error record holding the fault value and the call returns a nil error.
C10_RecoveredAsNil ==
  sCall.faulted =>
    /\ sCall.err = "nil"
    /\ sCall.resp = "nil"
    /\ Len(sLog) = 1
    /\ sLog[1].level = "Error"
    /\ sLog[1].val = sCall.in.val

C10_Witness ==
  /\ sCall.faulted /\ sCall.kind = "unary" /\ sCall.in.faultAt = "handler"
  /\ sCall.in.val = "index out of range" /\ Len(sLog) = 1

====
